---- MODULE Spec2Model ----
(***************************************************************************)
(* A model of the simplified TCP endpoint of src/main.rs: the segment      *)
(* constructors and wire encoding, the Internet checksum, the TcpClient    *)
(* state machine with its send window, and the handshake driver            *)
(* simulate_handshake_with_timeout.                                        *)
(*                                                                         *)
(* Option<T> is modelled as a sequence of length 0 (None) or 1 (Some).     *)
(* Byte vectors are sequences of numbers in 0..255.                        *)
(***************************************************************************)
EXTENDS Integers, Sequences, FiniteSets, TLC

----------------------------------------------------------------------------
(* Fixed-width integers *)

\* u16 has 2^16 values (the type of the ports and of the checksum)
U16 == 65536

\* A u32 (seq, ack, peer_seq, the checksum's accumulator) is kept at its full
\* width as its two 16-bit halves << high, low >>: the model checker's own
\* integers stop short of 2^32.
u32(n) == << (n \div U16) % U16, n % U16 >>

U32_MAX == << U16 - 1, U16 - 1 >>

\* The carry out of the low halves of x + y
Carry(x, y) == (x[2] + y[2]) \div U16

\* x + y modulo 2^32
wrapping_add(x, y) == << (x[1] + y[1] + Carry(x, y)) % U16, (x[2] + y[2]) % U16 >>

\* Does x + y leave the range of u32?
Overflows(x, y) == x[1] + y[1] + Carry(x, y) >= U16

\* x <= y on u32
u32_le(x, y) == x[1] < y[1] \/ (x[1] = y[1] /\ x[2] <= y[2])

None == << >>

Some(x) == << x >>

is_some(o) == Len(o) = 1

unwrap(o) == o[1]

----------------------------------------------------------------------------
(* TcpSegment *)

TcpSegment_syn(src, dst, seq) ==
    [src_port |-> src, dst_port |-> dst, seq |-> seq, ack |-> u32(0),
     syn |-> TRUE, ack_flag |-> FALSE, payload |-> << >>]

TcpSegment_syn_ack(src, dst, seq, ack) ==
    [src_port |-> src, dst_port |-> dst, seq |-> seq, ack |-> ack,
     syn |-> TRUE, ack_flag |-> TRUE, payload |-> << >>]

TcpSegment_ack(src, dst, seq, ack) ==
    [src_port |-> src, dst_port |-> dst, seq |-> seq, ack |-> ack,
     syn |-> FALSE, ack_flag |-> TRUE, payload |-> << >>]

TcpSegment_data(src, dst, seq, ack, data) ==
    [src_port |-> src, dst_port |-> dst, seq |-> seq, ack |-> ack,
     syn |-> FALSE, ack_flag |-> TRUE, payload |-> data]

\* u16::to_be_bytes
u16_to_be_bytes(x) == << x \div 256, x % 256 >>

\* u32::to_be_bytes
u32_to_be_bytes(x) ==
    << x[1] \div 256, x[1] % 256, x[2] \div 256, x[2] % 256 >>

\* The 20-byte header; the flag bits 0x02 and 0x10 do not overlap, so the
\* bitwise OR is their sum.
to_bytes(seg) ==
    u16_to_be_bytes(seg.src_port) \o u16_to_be_bytes(seg.dst_port)
    \o u32_to_be_bytes(seg.seq) \o u32_to_be_bytes(seg.ack)
    \o << 80 >>
    \o << (IF seg.syn THEN 2 ELSE 0) + (IF seg.ack_flag THEN 16 ELSE 0) >>
    \o u16_to_be_bytes(64240) \o u16_to_be_bytes(0) \o u16_to_be_bytes(0)

----------------------------------------------------------------------------
(* checksum *)

\* The loop over chunks_exact(2) followed by the remainder: the running sum
\* after the words of data from index i on have been added to sum.
RECURSIVE sum_words(_, _, _)
sum_words(data, i, sum) ==
    IF i + 1 <= Len(data)
    THEN sum_words(data, i + 2,
                   wrapping_add(sum, u32(data[i] * 256 + data[i + 1])))
    ELSE IF i <= Len(data)
         THEN wrapping_add(sum, u32(data[i] * 256))
         ELSE sum

\* The carries folded once instead of until none remains
fold_carries_once(sum) == u32(sum[2] + sum[1])

\* while (sum >> 16) != 0 { sum = (sum & 0xFFFF) + (sum >> 16) }
RECURSIVE fold_carries(_)
fold_carries(sum) ==
    IF sum[1] # 0
    THEN fold_carries(u32(sum[2] + sum[1]))
    ELSE sum

\* !sum as u16: the complement of the low 16 bits
checksum(data) == (U16 - 1) - fold_carries(sum_words(data, 1, u32(0)))[2]

compute_tcp_checksum(segment, src_ip, dst_ip) ==
    LET tcp_len == 20 + Len(segment.payload)
        pseudo == src_ip \o dst_ip \o << 0, 6 >>
                  \o u16_to_be_bytes(tcp_len % U16)
                  \o to_bytes(segment) \o segment.payload
    IN checksum(pseudo)

\* The two checksum bytes are inserted at the front of the payload.
with_checksum(seg, src_ip, dst_ip) ==
    LET sum == compute_tcp_checksum(seg, src_ip, dst_ip)
    IN [seg EXCEPT !.payload = << sum \div 256, sum % 256 >> \o seg.payload]

----------------------------------------------------------------------------
(* TcpClient *)

VARIABLES
    client_a,         \* the TcpClient of port 1000
    client_b,         \* the TcpClient of port 2000
    overflow_checks,  \* the build: TRUE when u32 overflow panics (debug
                      \* profile), FALSE when it wraps (release profile)
    aborted,          \* the process has panicked
    last,             \* the last call on an endpoint: its receiver, arguments,
                      \* return value and the endpoint as it was before
    refused,          \* some send_data call has found the window full
    synacks,          \* number of SYN-ACK segments each endpoint has returned
    lost,             \* the segments the network has dropped
    data,             \* the byte vector handed to checksum
    sum16,            \* the value checksum returned for it, once called
    ops,              \* number of calls made by the environment
    pc,               \* position of simulate_handshake_with_timeout
    tries,            \* its local tries
    handshake_done,   \* its local handshake_done
    inflight,         \* the segment it holds (syn, syn_ack, ack, msg, reply)
    calls             \* number of calls it has made, by operation

vars == << client_a, client_b, overflow_checks, aborted, last, refused,
           synacks, lost, data, sum16, ops,
           pc, tries, handshake_done, inflight, calls >>

TcpState == {"Closed", "SynSent", "SynReceived", "Established"}

TcpClient_new(port) ==
    [port |-> port, state |-> "Closed", seq |-> u32(1000), ack |-> u32(0),
     peer_seq |-> u32(0), window |-> << >>, window_size |-> 5]

\* The result of a call: the endpoint afterwards, the value returned, and
\* whether the call panicked (the endpoint is then as the panic left it).
Ret(c, out) == [c |-> c, out |-> out, panic |-> FALSE]

Panic(c) == [c |-> c, out |-> None, panic |-> TRUE]

\* send_syn that starts a handshake only on a closed endpoint
send_syn_only_closed(c, to) ==
    Ret(IF c.state = "Closed" THEN [c EXCEPT !.state = "SynSent"] ELSE c,
        Some(TcpSegment_syn(c.port, to, c.seq)))

send_syn(c, to) ==
    Ret([c EXCEPT !.state = "SynSent"], Some(TcpSegment_syn(c.port, to, c.seq)))

\* `x + y` on u32: a panic when the build checks overflow, else wraparound.
AddPanics(x, y) == overflow_checks /\ Overflows(x, y)

\* The Closed transition acknowledging the SYN's own seq
receive_Closed_ack_seq(c, seg) ==
    IF seg.syn /\ ~seg.ack_flag
    THEN LET c2 == [c EXCEPT !.state = "SynReceived", !.peer_seq = seg.seq,
                             !.ack = seg.seq]
         IN Ret(c2, Some(TcpSegment_syn_ack(c2.port, seg.src_port,
                                            c2.seq, c2.ack)))
    ELSE Ret(c, None)

receive_Closed(c, seg) ==
    IF seg.syn /\ ~seg.ack_flag
    THEN LET c1 == [c EXCEPT !.state = "SynReceived", !.peer_seq = seg.seq]
             c2 == [c1 EXCEPT !.ack = wrapping_add(seg.seq, u32(1))]
         IN IF AddPanics(seg.seq, u32(1))
            THEN Panic(c1)
            ELSE Ret(c2, Some(TcpSegment_syn_ack(c2.port, seg.src_port,
                                                 c2.seq, c2.ack)))
    ELSE Ret(c, None)

\* The SynSent transition taken on any SYN, whatever its ACK flag
receive_SynSent_any_syn(c, seg) ==
    IF seg.syn
    THEN Ret([c EXCEPT !.peer_seq = seg.seq,
                       !.ack = wrapping_add(seg.seq, u32(1)),
                       !.seq = wrapping_add(c.seq, u32(1)),
                       !.state = "Established"],
             Some(TcpSegment_ack(c.port, seg.src_port,
                                 wrapping_add(c.seq, u32(1)),
                                 wrapping_add(seg.seq, u32(1)))))
    ELSE Ret(c, None)

\* The SynSent transition that completes on a plain SYN only
receive_SynSent_plain_syn(c, seg) ==
    IF seg.syn /\ ~seg.ack_flag
    THEN Ret([c EXCEPT !.peer_seq = seg.seq,
                       !.ack = wrapping_add(seg.seq, u32(1)),
                       !.seq = wrapping_add(c.seq, u32(1)),
                       !.state = "Established"],
             Some(TcpSegment_ack(c.port, seg.src_port,
                                 wrapping_add(c.seq, u32(1)),
                                 wrapping_add(seg.seq, u32(1)))))
    ELSE Ret(c, None)

receive_SynSent(c, seg) ==
    IF seg.syn /\ seg.ack_flag
    THEN LET c1 == [c EXCEPT !.peer_seq = seg.seq]
             c2 == [c1 EXCEPT !.ack = wrapping_add(seg.seq, u32(1))]
             c3 == [c2 EXCEPT !.seq = wrapping_add(c.seq, u32(1)),
                              !.state = "Established"]
         IN IF AddPanics(seg.seq, u32(1)) THEN Panic(c1)
            ELSE IF AddPanics(c.seq, u32(1)) THEN Panic(c2)
            ELSE Ret(c3, Some(TcpSegment_ack(c3.port, seg.src_port,
                                             c3.seq, c3.ack)))
    ELSE Ret(c, None)

\* The SynReceived transition that also takes the data of the segment
receive_SynReceived_takes_data(c, seg) ==
    IF seg.ack_flag /\ ~seg.syn
    THEN Ret([c EXCEPT !.state = "Established",
                       !.ack = IF seg.payload # << >>
                               THEN wrapping_add(seg.seq, u32(Len(seg.payload)))
                               ELSE @],
             None)
    ELSE Ret(c, None)

\* The SynReceived arm answering a repeated SYN with another SYN-ACK
receive_SynReceived_reanswers_syn(c, seg) ==
    IF seg.ack_flag /\ ~seg.syn
    THEN Ret([c EXCEPT !.state = "Established"], None)
    ELSE IF seg.syn /\ ~seg.ack_flag
         THEN Ret(c, Some(TcpSegment_syn_ack(c.port, seg.src_port, c.seq,
                                             c.ack)))
         ELSE Ret(c, None)

receive_SynReceived(c, seg) ==
    IF seg.ack_flag /\ ~seg.syn
    THEN Ret([c EXCEPT !.state = "Established"], None)
    ELSE Ret(c, None)

\* The Established arm closing the connection on a SYN
receive_Established_resets_on_syn(c, seg) ==
    IF seg.syn
    THEN Ret([c EXCEPT !.state = "Closed"], None)
    ELSE IF seg.payload # << >>
         THEN IF AddPanics(seg.seq, u32(Len(seg.payload)))
              THEN Panic(c)
              ELSE Ret([c EXCEPT !.ack = wrapping_add(seg.seq,
                                                      u32(Len(seg.payload)))],
                       None)
         ELSE Ret(c, None)

receive_Established(c, seg) ==
    IF seg.payload # << >>
    THEN IF AddPanics(seg.seq, u32(Len(seg.payload)))
         THEN Panic(c)
         ELSE Ret([c EXCEPT !.ack = wrapping_add(seg.seq, u32(Len(seg.payload)))],
                  None)
    ELSE Ret(c, None)

receive(c, seg) ==
    CASE c.state = "Closed"      -> receive_Closed(c, seg)
      [] c.state = "SynSent"     -> receive_SynSent(c, seg)
      [] c.state = "SynReceived" -> receive_SynReceived(c, seg)
      [] c.state = "Established" -> receive_Established(c, seg)

\* send_data that admits a segment when the window is exactly full
send_data_off_by_one(c, to, msg) ==
    IF Len(c.window) <= c.window_size
    THEN LET seg == TcpSegment_data(c.port, to, c.seq, c.ack, msg)
         IN Ret([c EXCEPT !.seq = wrapping_add(c.seq, u32(Len(msg))),
                          !.window = Append(c.window, seg)],
                Some(seg))
    ELSE Ret(c, None)

\* send_data that advances seq before it finds the window full
send_data_advances_first(c, to, msg) ==
    LET seg == TcpSegment_data(c.port, to, c.seq, c.ack, msg)
        c1 == [c EXCEPT !.seq = wrapping_add(c.seq, u32(Len(msg)))]
    IN IF Len(c.window) < c.window_size
       THEN Ret([c1 EXCEPT !.window = Append(c.window, seg)], Some(seg))
       ELSE Ret(c1, None)

\* send_data that builds the segment after advancing seq
send_data_seq_after(c, to, msg) ==
    IF Len(c.window) < c.window_size
    THEN LET c1 == [c EXCEPT !.seq = wrapping_add(c.seq, u32(Len(msg)))]
             seg == TcpSegment_data(c.port, to, c1.seq, c.ack, msg)
         IN Ret([c1 EXCEPT !.window = Append(c.window, seg)], Some(seg))
    ELSE Ret(c, None)

\* send_data that puts the segment at the front of the window
send_data_push_front(c, to, msg) ==
    IF Len(c.window) < c.window_size
    THEN LET seg == TcpSegment_data(c.port, to, c.seq, c.ack, msg)
         IN Ret([c EXCEPT !.seq = wrapping_add(c.seq, u32(Len(msg))),
                          !.window = << seg >> \o c.window],
                Some(seg))
    ELSE Ret(c, None)

\* send_data that refuses to send unless the connection is established
send_data_established_only(c, to, msg) ==
    IF c.state = "Established" /\ Len(c.window) < c.window_size
    THEN LET seg == TcpSegment_data(c.port, to, c.seq, c.ack, msg)
         IN Ret([c EXCEPT !.seq = wrapping_add(c.seq, u32(Len(msg))),
                          !.window = Append(c.window, seg)],
                Some(seg))
    ELSE Ret(c, None)

send_data(c, to, msg) ==
    IF Len(c.window) < c.window_size
    THEN LET seg == TcpSegment_data(c.port, to, c.seq, c.ack, msg)
         IN IF AddPanics(c.seq, u32(Len(msg)))
            THEN Panic(c)
            ELSE Ret([c EXCEPT !.seq = wrapping_add(c.seq, u32(Len(msg))),
                               !.window = Append(c.window, seg)],
                     Some(seg))
    ELSE Ret(c, None)

\* The loop comparing the end of the segment, seq + len(payload), with
\* ack_number
RECURSIVE pop_acked_end_seq(_, _)
pop_acked_end_seq(window, ack_number) ==
    IF window # << >>
       /\ u32_le(wrapping_add(Head(window).seq, u32(Len(Head(window).payload))),
                 ack_number)
    THEN pop_acked_end_seq(Tail(window), ack_number)
    ELSE window

\* The loop with the strict comparison seq < ack_number
RECURSIVE pop_acked_strict(_, _)
pop_acked_strict(window, ack_number) ==
    IF window # << >> /\ Head(window).seq # ack_number
                      /\ u32_le(Head(window).seq, ack_number)
    THEN pop_acked_strict(Tail(window), ack_number)
    ELSE window

\* The while-let loop: pop the front while its seq is <= ack_number.
RECURSIVE pop_acked(_, _)
pop_acked(window, ack_number) ==
    IF window # << >> /\ u32_le(Head(window).seq, ack_number)
    THEN pop_acked(Tail(window), ack_number)
    ELSE window

ack_data(c, ack_number) ==
    Ret([c EXCEPT !.window = pop_acked(c.window, ack_number)], None)

----------------------------------------------------------------------------
(* Calls on an endpoint *)

\* The endpoint a call is made on.
Client(who) == IF who = "a" THEN client_a ELSE client_b

\* The record of a call. seg is the argument of receive, to and msg those of
\* send_syn and send_data, n that of ack_data; the ones a call does not take
\* are None, 0, << >> and u32(0).
CallRecord(who, op, seg, to, msg, n, r) ==
    [who |-> who, op |-> op, seg |-> seg, to |-> to, msg |-> msg, n |-> n,
     out |-> r.out, pre |-> Client(who)]

\* The value returned is a segment with both flags set.
is_syn_ack(out) == is_some(out) /\ unwrap(out).syn /\ unwrap(out).ack_flag

\* What a call with result r does to the endpoint and to the process.
Effect(who, rec, r) ==
    /\ IF who = "a"
       THEN client_a' = r.c /\ UNCHANGED client_b
       ELSE client_b' = r.c /\ UNCHANGED client_a
    /\ aborted' = r.panic
    /\ last' = rec
    /\ refused' = (refused \/ (rec.op = "send_data" /\ r.out = None /\ ~r.panic))
    /\ synacks' = IF is_syn_ack(r.out)
                  THEN [synacks EXCEPT ![who] = @ + 1]
                  ELSE synacks
    /\ UNCHANGED << overflow_checks, lost, data, sum16 >>

DoSendSyn(who, to) ==
    LET r == send_syn(Client(who), to)
    IN Effect(who, CallRecord(who, "send_syn", None, to, << >>, u32(0), r), r)

DoReceive(who, seg) ==
    LET r == receive(Client(who), seg)
    IN Effect(who, CallRecord(who, "receive", Some(seg), 0, << >>, u32(0), r), r)

DoSendData(who, to, msg) ==
    LET r == send_data(Client(who), to, msg)
    IN Effect(who, CallRecord(who, "send_data", None, to, msg, u32(0), r), r)

DoAckData(who, n) ==
    LET r == ack_data(Client(who), n)
    IN Effect(who, CallRecord(who, "ack_data", None, 0, << >>, n, r), r)

----------------------------------------------------------------------------
(* The environment: any caller of the four operations of one endpoint *)

\* Bound on the number of calls of one run
MaxOps == 8

\* Destination ports a caller passes
Ports == {2000}

\* Messages a caller sends: "" and "hi"
Msgs == {<< >>, << 104, 105 >>}

\* Segments a caller delivers: every combination of the two flags with a
\* sequence number in the middle or at the top of the range of u32, data
\* segments with a two-byte payload, and a SYN that carries a payload
Seg(seq, syn, ack_flag, payload) ==
    [src_port |-> 2000, dst_port |-> 1000, seq |-> seq, ack |-> u32(0),
     syn |-> syn, ack_flag |-> ack_flag, payload |-> payload]

Segs ==
    { Seg(q, f[1], f[2], << >>) :
        q \in {u32(3000), U32_MAX}, f \in BOOLEAN \X BOOLEAN }
    \cup { Seg(q, FALSE, TRUE, << 1, 2 >>) : q \in {u32(3000), U32_MAX} }
    \cup { Seg(u32(3000), TRUE, FALSE, << 1, 2 >>) }

\* Acknowledgment numbers a caller passes: the extremes, the endpoint's seq
\* and the sequence number of each window entry
AckNumbers(c) ==
    {u32(0), U32_MAX, c.seq} \cup {c.window[i].seq : i \in DOMAIN c.window}

NoCall == [who |-> "a", op |-> "new", seg |-> None, to |-> 0, msg |-> << >>,
           n |-> u32(0), out |-> None, pre |-> TcpClient_new(1000)]

NoCalls == [send_syn |-> 0, receive |-> 0, send_data |-> 0, ack_data |-> 0]

DriverIdle ==
    UNCHANGED << pc, tries, handshake_done, inflight, calls >>

Init ==
    /\ client_a = TcpClient_new(1000)
    /\ client_b = TcpClient_new(2000)
    /\ overflow_checks \in BOOLEAN
    /\ aborted = FALSE
    /\ last = NoCall
    /\ refused = FALSE
    /\ synacks = [a |-> 0, b |-> 0]
    /\ lost = {}
    /\ data = << >>
    /\ sum16 = None
    /\ ops = 0
    /\ pc = "api"
    /\ tries = 0
    /\ handshake_done = FALSE
    /\ inflight = None
    /\ calls = NoCalls

CanCall == ~aborted /\ ops < MaxOps

CallSendSyn(who) ==
    /\ CanCall
    /\ \E to \in Ports : DoSendSyn(who, to)
    /\ ops' = ops + 1
    /\ DriverIdle

CallReceive(who) ==
    /\ CanCall
    /\ \E seg \in Segs : DoReceive(who, seg)
    /\ ops' = ops + 1
    /\ DriverIdle

CallSendData(who) ==
    /\ CanCall
    /\ \E to \in Ports, msg \in Msgs : DoSendData(who, to, msg)
    /\ ops' = ops + 1
    /\ DriverIdle

CallAckData(who) ==
    /\ CanCall
    /\ \E n \in AckNumbers(Client(who)) : DoAckData(who, n)
    /\ ops' = ops + 1
    /\ DriverIdle

Next ==
    \/ CallSendSyn("a")
    \/ CallReceive("a")
    \/ CallSendData("a")
    \/ CallAckData("a")

Spec == Init /\ [][Next]_vars

----------------------------------------------------------------------------
(* simulate_handshake_with_timeout *)

max_tries == 3

src_ip == << 192, 168, 0, 1 >>

dst_ip == << 192, 168, 0, 2 >>

\* "Hello from A"
HelloFromA == << 72, 101, 108, 108, 111, 32, 102, 114, 111, 109, 32, 65 >>

\* "Hi from B"
HiFromB == << 72, 105, 32, 102, 114, 111, 109, 32, 66 >>

\* Bound on the number of calls made on the responder before the loop
MaxSetup == 2

\* main() runs the driver on two new endpoints.  To exercise the branch of
\* the retry loop in which client_b gives no reply, the responder may first
\* be used by a caller (at most MaxSetup calls of its four operations); the
\* run with no such call (ops = 0) is the run of main().
DriverInit ==
    /\ client_a = TcpClient_new(1000)
    /\ client_b = TcpClient_new(2000)
    /\ overflow_checks \in BOOLEAN
    /\ aborted = FALSE
    /\ last = NoCall
    /\ refused = FALSE
    /\ synacks = [a |-> 0, b |-> 0]
    /\ lost = {}
    /\ data = << >>
    /\ sum16 = None
    /\ ops = 0
    /\ pc = "setup"
    /\ tries = 0
    /\ handshake_done = FALSE
    /\ inflight = None
    /\ calls = NoCalls

SetupCall ==
    /\ pc = "setup"
    /\ ops < MaxSetup
    /\ \/ CallSendSyn("b")
       \/ CallReceive("b")
       \/ CallSendData("b")
       \/ CallAckData("b")

\* let mut tries = 0; let max_tries = 3; let mut handshake_done = false;
StartLoop ==
    /\ pc = "setup"
    /\ ~aborted
    /\ pc' = "loop"
    /\ tries' = 0
    /\ handshake_done' = FALSE
    /\ UNCHANGED << client_a, client_b, overflow_checks, aborted, last,
                    refused, synacks, lost, data, sum16, ops, inflight, calls >>

Running(at) == pc = at /\ ~aborted

Count(op) == calls' = [calls EXCEPT ![op] = @ + 1]

\* The retry loop with one attempt more than max_tries
TrySendSyn_one_more ==
    /\ Running("loop")
    /\ tries <= max_tries /\ ~handshake_done
    /\ LET r == send_syn(client_a, client_b.port)
           syn == with_checksum(unwrap(r.out), src_ip, dst_ip)
       IN /\ Effect("a", CallRecord("a", "send_syn", None, client_b.port,
                                    << >>, u32(0), r), r)
          /\ inflight' = Some(syn)
    /\ Count("send_syn")
    /\ pc' = "syn_sent"
    /\ UNCHANGED << ops, tries, handshake_done >>

\* while tries < max_tries && !handshake_done:
\*     let syn = client_a.send_syn(client_b.port).with_checksum(src_ip, dst_ip)
TrySendSyn ==
    /\ Running("loop")
    /\ tries < max_tries /\ ~handshake_done
    /\ LET r == send_syn(client_a, client_b.port)
           syn == with_checksum(unwrap(r.out), src_ip, dst_ip)
       IN /\ Effect("a", CallRecord("a", "send_syn", None, client_b.port,
                                    << >>, u32(0), r), r)
          /\ inflight' = Some(syn)
    /\ Count("send_syn")
    /\ pc' = "syn_sent"
    /\ UNCHANGED << ops, tries, handshake_done >>

\* if let Some(syn_ack) = client_b.receive(&syn) { .. } else { .. }
BReceiveSyn ==
    /\ Running("syn_sent")
    /\ DoReceive("b", unwrap(inflight))
    /\ LET r == receive(client_b, unwrap(inflight))
       IN \/ /\ is_some(r.out)
             /\ inflight' = r.out
             /\ pc' = "syn_ack"
          \/ /\ ~is_some(r.out)
             /\ inflight' = None
             /\ pc' = "end_try"
    /\ Count("receive")
    /\ UNCHANGED << ops, tries, handshake_done >>

\* let ack = client_a.receive(&syn_ack).unwrap();
\* unwrap of None panics.
AReceiveSynAck ==
    /\ Running("syn_ack")
    /\ LET seg == unwrap(inflight)
           r == receive(client_a, seg)
       IN /\ Effect("a", CallRecord("a", "receive", Some(seg), 0, << >>,
                                    u32(0), r),
                    IF is_some(r.out) THEN r ELSE Panic(r.c))
          /\ inflight' = r.out
    /\ Count("receive")
    /\ pc' = "ack"
    /\ UNCHANGED << ops, tries, handshake_done >>

\* client_b.receive(&ack); handshake_done = true;
BReceiveAck ==
    /\ Running("ack")
    /\ DoReceive("b", unwrap(inflight))
    /\ Count("receive")
    /\ handshake_done' = TRUE
    /\ inflight' = None
    /\ pc' = "end_try"
    /\ UNCHANGED << ops, tries >>

\* tries += 1; thread::sleep(..)
EndTry ==
    /\ Running("end_try")
    /\ tries' = tries + 1
    /\ pc' = "loop"
    /\ UNCHANGED << client_a, client_b, overflow_checks, aborted, last,
                    refused, synacks, lost, data, sum16, ops, handshake_done, inflight, calls >>

\* The loop condition is false: if handshake_done { .. } else { .. }
LoopExit ==
    /\ Running("loop")
    /\ ~(tries < max_tries /\ ~handshake_done)
    /\ \/ handshake_done /\ pc' = "a_send"
       \/ ~handshake_done /\ pc' = "failed"
    /\ UNCHANGED << client_a, client_b, overflow_checks, aborted, last,
                    refused, synacks, lost, data, sum16, ops, tries, handshake_done, inflight, calls >>

\* if let Some(msg) = client_a.send_data(client_b.port, "Hello from A")
ASendData ==
    /\ Running("a_send")
    /\ DoSendData("a", client_b.port, HelloFromA)
    /\ LET r == send_data(client_a, client_b.port, HelloFromA)
       IN /\ inflight' = r.out
          /\ pc' = IF is_some(r.out) THEN "b_receive" ELSE "b_send"
    /\ Count("send_data")
    /\ UNCHANGED << ops, tries, handshake_done >>

\* client_b.receive(&msg);
BReceiveData ==
    /\ Running("b_receive")
    /\ DoReceive("b", unwrap(inflight))
    /\ Count("receive")
    /\ inflight' = None
    /\ pc' = "a_ack"
    /\ UNCHANGED << ops, tries, handshake_done >>

\* client_a.ack_data(client_b.ack);
AAckData ==
    /\ Running("a_ack")
    /\ DoAckData("a", client_b.ack)
    /\ Count("ack_data")
    /\ pc' = "b_send"
    /\ UNCHANGED << ops, tries, handshake_done, inflight >>

\* if let Some(reply) = client_b.send_data(client_a.port, "Hi from B")
BSendData ==
    /\ Running("b_send")
    /\ DoSendData("b", client_a.port, HiFromB)
    /\ LET r == send_data(client_b, client_a.port, HiFromB)
       IN /\ inflight' = r.out
          /\ pc' = IF is_some(r.out) THEN "a_receive" ELSE "done"
    /\ Count("send_data")
    /\ UNCHANGED << ops, tries, handshake_done >>

\* client_a.receive(&reply);
AReceiveData ==
    /\ Running("a_receive")
    /\ DoReceive("a", unwrap(inflight))
    /\ Count("receive")
    /\ inflight' = None
    /\ pc' = "b_ack"
    /\ UNCHANGED << ops, tries, handshake_done >>

\* client_b.ack_data(client_a.ack);
BAckData ==
    /\ Running("b_ack")
    /\ DoAckData("b", client_a.ack)
    /\ Count("ack_data")
    /\ pc' = "done"
    /\ UNCHANGED << ops, tries, handshake_done, inflight >>

DriverNext ==
    \/ SetupCall
    \/ StartLoop
    \/ TrySendSyn
    \/ BReceiveSyn
    \/ AReceiveSynAck
    \/ BReceiveAck
    \/ EndTry
    \/ LoopExit
    \/ ASendData
    \/ BReceiveData
    \/ AAckData
    \/ BSendData
    \/ AReceiveData
    \/ BAckData

DriverSpec == DriverInit /\ [][DriverNext]_vars

----------------------------------------------------------------------------
(* The window scenario: an endpoint completes a handshake as initiator, then
   its caller makes six send_data calls, ack_data with the seq of the first
   segment sent, and a seventh send_data call.  ops is the number of calls
   made so far. *)

WindowInit ==
    /\ client_a = TcpClient_new(1000)
    /\ client_b = TcpClient_new(2000)
    /\ overflow_checks \in BOOLEAN
    /\ aborted = FALSE
    /\ last = NoCall
    /\ refused = FALSE
    /\ synacks = [a |-> 0, b |-> 0]
    /\ lost = {}
    /\ data = << >>
    /\ sum16 = None
    /\ ops = 0
    /\ pc = "window"
    /\ tries = 0
    /\ handshake_done = FALSE
    /\ inflight = None
    /\ calls = NoCalls

Step(k) == pc = "window" /\ ~aborted /\ ops = k /\ ops' = ops + 1 /\ DriverIdle

WindowSendSyn ==
    /\ Step(0)
    /\ \E to \in Ports : DoSendSyn("a", to)

WindowReceiveSynAck ==
    /\ Step(1)
    /\ \E seg \in Segs : seg.syn /\ seg.ack_flag /\ DoReceive("a", seg)

WindowSendData ==
    /\ \E k \in (2 .. 7) \cup {9} : Step(k)
    /\ \E to \in Ports, msg \in Msgs : DoSendData("a", to, msg)

WindowAckFirst ==
    /\ Step(8)
    /\ DoAckData("a", Head(client_a.window).seq)

WindowNext ==
    \/ WindowSendSyn
    \/ WindowReceiveSynAck
    \/ WindowSendData
    \/ WindowAckFirst

WindowSpec == WindowInit /\ [][WindowNext]_vars

----------------------------------------------------------------------------
(* Properties of one endpoint under any caller (Spec) *)

\* The endpoint of the last call, as it is now
Now == Client(last.who)

\* C2: in every state reachable from TcpClient::new by send_syn, receive,
\* send_data and ack_data calls, the send window holds at most window_size
\* (5) segments.
C2_WindowBound == Len(client_a.window) <= 5

\* A send_data call has been made on a full window.
C2_Witness ==
    /\ last.op = "send_data"
    /\ Len(last.pre.window) = 5
    /\ Len(client_a.window) = 5

\* C3: send_data on a window that holds window_size segments returns no
\* segment, does not panic and leaves the endpoint (state, seq, ack, peer_seq,
\* window) as it was; a send_data made after a refusal, once the window is
\* below capacity again, returns a segment.
C3_WindowFullNoEffect ==
    last.op = "send_data" =>
        /\ Len(last.pre.window) >= last.pre.window_size =>
              /\ last.out = None
              /\ ~aborted
              /\ Now = last.pre
        /\ (refused /\ Len(last.pre.window) < last.pre.window_size) =>
              is_some(last.out)

\* A send_data call succeeds after an earlier one was refused.
C3_Witness ==
    /\ last.op = "send_data"
    /\ refused
    /\ is_some(last.out)

\* C4: send_data(to, bytes) on a window below capacity returns the data
\* segment (syn false, ack_flag true) from the local port to `to` with the
\* endpoint's seq before the call, its ack and payload bytes; seq has then
\* advanced by exactly len(bytes), and the window is the old window with
\* the returned segment appended.
C4_SendDataOk ==
    (last.op = "send_data" /\ Len(last.pre.window) < last.pre.window_size) =>
        /\ last.out = Some([src_port |-> last.pre.port, dst_port |-> last.to,
                            seq |-> last.pre.seq, ack |-> last.pre.ack,
                            syn |-> FALSE, ack_flag |-> TRUE,
                            payload |-> last.msg])
        /\ ~Overflows(last.pre.seq, u32(Len(last.msg)))
        /\ Now.seq = wrapping_add(last.pre.seq, u32(Len(last.msg)))
        /\ Len(Now.window) = Len(last.pre.window) + 1
        /\ Now.window[Len(Now.window)] = unwrap(last.out)
        /\ SubSeq(Now.window, 1, Len(last.pre.window)) = last.pre.window

\* A non-empty message has been sent behind two segments still in the window.
C4_Witness ==
    /\ last.op = "send_data"
    /\ last.msg # << >>
    /\ Len(last.pre.window) >= 2
    /\ is_some(last.out)

\* C5: ack_data(n) removes the longest prefix of the window whose entries
\* all have seq <= n, leaves the entries behind it as they were and in the
\* same order, and changes none of state, seq, ack and peer_seq.
C5_AckDataPrefix ==
    last.op = "ack_data" =>
        LET old == last.pre.window
            k == Len(old) - Len(Now.window)
        IN /\ k \in 0 .. Len(old)
           /\ Now.window = SubSeq(old, k + 1, Len(old))
           /\ \A i \in 1 .. k : u32_le(old[i].seq, last.n)
           /\ k < Len(old) => ~u32_le(old[k + 1].seq, last.n)
           /\ Now = [last.pre EXCEPT !.window = Now.window]
           /\ last.out = None

\* An ack_data call has removed some entries of the window and kept others.
C5_Witness ==
    /\ last.op = "ack_data"
    /\ Len(Now.window) > 0
    /\ Len(Now.window) < Len(last.pre.window)

\* The segment matches no transition of the endpoint's state.
NoTransition(c, seg) ==
    \/ c.state = "Closed" /\ ~(seg.syn /\ ~seg.ack_flag)
    \/ c.state = "SynSent" /\ ~(seg.syn /\ seg.ack_flag)
    \/ c.state = "SynReceived" /\ ~(seg.ack_flag /\ ~seg.syn)
    \/ c.state = "Established" /\ seg.payload = << >>

\* C6: receive of a segment that matches no transition of the current state
\* returns no reply, does not panic and leaves state, seq, ack, peer_seq and
\* the window unchanged.
C6_ReceiveNoOp ==
    (last.op = "receive" /\ NoTransition(last.pre, unwrap(last.seg))) =>
        /\ last.out = None
        /\ ~aborted
        /\ Now = last.pre

\* A SYN-ACK has been delivered to an endpoint in SynReceived.
C6_Witness ==
    /\ last.op = "receive"
    /\ last.pre.state = "SynReceived"
    /\ unwrap(last.seg).syn
    /\ unwrap(last.seg).ack_flag

\* C9: send_syn in any state sets the state to SynSent, returns the SYN
\* (syn true, ack_flag false, no payload) from the local port with the
\* endpoint's seq, and leaves seq, ack, peer_seq and the window unchanged; a
\* second send_syn right after it returns the same segment and leaves the
\* endpoint as the first call left it.
C9_SendSyn ==
    /\ last.op = "send_syn" =>
          /\ Now = [last.pre EXCEPT !.state = "SynSent"]
          /\ last.out = Some([src_port |-> last.pre.port,
                              dst_port |-> last.to, seq |-> last.pre.seq,
                              ack |-> u32(0), syn |-> TRUE,
                              ack_flag |-> FALSE, payload |-> << >>])
          /\ ~aborted
    /\ \A to \in Ports :
          LET once == send_syn(client_a, to)
              twice == send_syn(once.c, to)
          IN twice = once

\* send_syn has been called on an established endpoint with a segment in
\* its window.
C9_Witness ==
    /\ last.op = "send_syn"
    /\ last.pre.state = "Established"
    /\ last.pre.window # << >>

----------------------------------------------------------------------------
(* Properties of the driver (DriverSpec) *)

\* C1: from two new endpoints (no call made on either before the loop), the
\* exchange send_syn / receive(SYN) / receive(SYN-ACK) / receive(ACK) is
\* never refused; the SYN-ACK that client_b returns has both flags set and
\* ack = 1001; when the ACK has been delivered both endpoints are
\* Established, client_a.ack = client_b.seq + 1 and client_b.ack = 1001.
C1_Handshake ==
    ops = 0 =>
        /\ ~aborted
        /\ pc # "failed"
        /\ pc = "syn_ack" =>
              /\ is_some(inflight)
              /\ unwrap(inflight).syn /\ unwrap(inflight).ack_flag
              /\ unwrap(inflight).ack = u32(1001)
              /\ unwrap(inflight).seq = u32(1000)
        /\ pc = "ack" =>
              /\ is_some(inflight)
              /\ ~unwrap(inflight).syn /\ unwrap(inflight).ack_flag
              /\ client_a.state = "Established"
        /\ pc = "end_try" =>
              /\ handshake_done
              /\ tries = 0
              /\ client_a.state = "Established"
              /\ client_b.state = "Established"
              /\ client_a.ack = wrapping_add(client_b.seq, u32(1))
              /\ client_a.ack = u32(1001)
              /\ client_b.ack = u32(1001)
              /\ client_a.peer_seq = u32(1000)
              /\ client_b.peer_seq = u32(1000)

\* The ACK has been delivered to client_b in the run of main().
C1_Witness ==
    /\ ops = 0
    /\ pc = "end_try"
    /\ handshake_done
    /\ last.who = "b"
    /\ last.op = "receive"

\* C8 (state part): the loop makes at most max_tries SYN attempts; when it
\* ends without a reply it has made exactly 3 send_syn calls and 3 tries, no
\* send_data or ack_data call has been made, and client_a is left in
\* SynSent; no data is exchanged unless the handshake was done.
C8_State ==
    /\ calls.send_syn <= max_tries
    /\ (calls.send_data > 0 \/ calls.ack_data > 0) => handshake_done
    /\ pc = "failed" =>
          /\ ~handshake_done
          /\ tries = 3
          /\ calls.send_syn = 3
          /\ calls.send_data = 0
          /\ calls.ack_data = 0
          /\ client_a.state = "SynSent"
          /\ client_a.seq = u32(1000)
          /\ client_a.window = << >>

\* C8 (step part): once a reply has been obtained (the SYN-ACK is held, or
\* the handshake is done) no further send_syn call is made.
C8_Step ==
    (pc \in {"syn_ack", "ack"} \/ handshake_done) =>
        calls'.send_syn = calls.send_syn

\* C8: the bounded retry of the handshake.
C8_BoundedRetry == []C8_State /\ [][C8_Step]_vars

\* The loop has ended after three attempts without a reply.
C8_Witness ==
    /\ pc = "failed"
    /\ tries = 3
    /\ last.who = "b"
    /\ last.op = "receive"
    /\ last.out = None

----------------------------------------------------------------------------
(* Properties of the window scenario (WindowSpec) *)

\* C7: on the established endpoint the first five send_data calls return a
\* segment and the sixth returns none (window full); after ack_data with
\* the seq of the first segment sent, the seventh send_data call returns a
\* segment.
C7_WindowScenario ==
    (pc = "window" /\ ~aborted) =>
        /\ ops = 2 => client_a.state = "Established"
        /\ ops \in 3 .. 7 =>
              /\ last.op = "send_data"
              /\ last.pre.state = "Established"
              /\ is_some(last.out)
              /\ Len(client_a.window) = ops - 2
        /\ ops = 8 =>
              /\ last.op = "send_data"
              /\ last.out = None
              /\ Len(client_a.window) = 5
        /\ ops = 9 =>
              /\ last.op = "ack_data"
              /\ last.n = Head(last.pre.window).seq
        /\ ops = 10 =>
              /\ last.op = "send_data"
              /\ is_some(last.out)

\* The seventh send_data call has been made.
C7_Witness ==
    /\ pc = "window"
    /\ ops = 10
    /\ refused
    /\ is_some(last.out)

----------------------------------------------------------------------------
(* Sequence-number arithmetic (Spec) *)

\* C10: the arithmetic on seq and ack is modulo 2^32 and never aborts:
\* receive of a SYN in Closed or of a SYN-ACK in SynSent with
\* seq = 2^32 - 1 sets ack to 0, the SynSent transition sets
\* seq = (seq + 1) mod 2^32, receive of data in Established sets
\* ack = (seg.seq + len(payload)) mod 2^32, and send_data sets
\* seq = (seq + len(bytes)) mod 2^32.
C10_WrappingNeverAborts ==
    /\ ~aborted
    /\ last.op = "receive" =>
          LET seg == unwrap(last.seg)
          IN /\ (last.pre.state = "Closed" /\ seg.syn /\ ~seg.ack_flag
                   /\ seg.seq = U32_MAX) => Now.ack = u32(0)
             /\ (last.pre.state = "SynSent" /\ seg.syn /\ seg.ack_flag) =>
                   /\ seg.seq = U32_MAX => Now.ack = u32(0)
                   /\ Now.seq = wrapping_add(last.pre.seq, u32(1))
             /\ (last.pre.state = "Established" /\ seg.payload # << >>) =>
                   Now.ack = wrapping_add(seg.seq, u32(Len(seg.payload)))
    /\ (last.op = "send_data" /\ is_some(last.out)) =>
          Now.seq = wrapping_add(last.pre.seq, u32(Len(last.msg)))

----------------------------------------------------------------------------
(* Further properties of one endpoint under any caller (Spec) *)

\* C13: receive of a segment with a non-empty payload in Established sets
\* ack = seg.seq + len(payload) (modulo 2^32), returns no reply, does not
\* panic and leaves state, seq, peer_seq and the window unchanged, whatever
\* the flags of the segment and whether or not seg.seq is the previous ack.
C13_EstablishedData ==
    (/\ last.op = "receive"
     /\ last.pre.state = "Established"
     /\ unwrap(last.seg).payload # << >>) =>
        /\ ~aborted
        /\ last.out = None
        /\ Now = [last.pre EXCEPT
                    !.ack = wrapping_add(unwrap(last.seg).seq,
                                         u32(Len(unwrap(last.seg).payload)))]

\* C14: receive of a segment with ack_flag and not syn in SynReceived moves
\* the endpoint to Established, returns no reply and changes none of seq,
\* ack, peer_seq and the window, whatever the segment's ack number, ports
\* and payload.
C14_SynReceivedCompletion ==
    (/\ last.op = "receive"
     /\ last.pre.state = "SynReceived"
     /\ unwrap(last.seg).ack_flag
     /\ ~unwrap(last.seg).syn) =>
        /\ ~aborted
        /\ last.out = None
        /\ Now = [last.pre EXCEPT !.state = "Established"]

\* A segment with a payload has completed the handshake of a responder.
C14_Witness ==
    /\ last.op = "receive"
    /\ last.pre.state = "SynReceived"
    /\ unwrap(last.seg).ack_flag
    /\ ~unwrap(last.seg).syn
    /\ unwrap(last.seg).payload # << >>
    /\ Now.state = "Established"

\* C17: the seq values of the window entries are non-decreasing from front
\* to back and none exceeds the endpoint's seq; so the prefix that
\* ack_data(n) removes is the set of all window entries with seq <= n.
C17_WindowOrdered ==
    /\ \A i, j \in DOMAIN client_a.window :
          i <= j => u32_le(client_a.window[i].seq, client_a.window[j].seq)
    /\ \A i \in DOMAIN client_a.window :
          u32_le(client_a.window[i].seq, client_a.seq)
    /\ last.op = "ack_data" =>
          LET old == last.pre.window
              k == Len(old) - Len(Now.window)
          IN \A i \in DOMAIN old : u32_le(old[i].seq, last.n) <=> i <= k

\* ack_data has removed some entries of a window holding at least three
\* segments that do not all have the same seq.
C17_Witness ==
    /\ last.op = "ack_data"
    /\ Len(last.pre.window) >= 3
    /\ last.pre.window[1].seq # last.pre.window[Len(last.pre.window)].seq
    /\ Len(Now.window) > 0
    /\ Len(Now.window) < Len(last.pre.window)

\* The state changes that the transition table of receive names
ReceiveTable ==
    { << "Closed", "SynReceived" >>, << "SynSent", "Established" >>,
      << "SynReceived", "Established" >> }

\* C18: receive, send_data and ack_data leave an established endpoint
\* Established, and receive changes the state only along the transition
\* table: Closed to SynReceived, SynSent to Established, SynReceived to
\* Established.
C18_EstablishedAbsorbing ==
    /\ (last.op \in {"receive", "send_data", "ack_data"}
          /\ last.pre.state = "Established") => Now.state = "Established"
    /\ (last.op = "receive" /\ Now.state # last.pre.state) =>
          << last.pre.state, Now.state >> \in ReceiveTable
    /\ last.op \in {"send_data", "ack_data"} => Now.state = last.pre.state

\* A SYN has been delivered to an established endpoint.
C18_Witness ==
    /\ last.op = "receive"
    /\ last.pre.state = "Established"
    /\ unwrap(last.seg).syn
    /\ ~unwrap(last.seg).ack_flag
    /\ Now.state = "Established"

\* C20 as claimed: send_data returns a segment only in Established; in
\* Closed, SynSent and SynReceived it returns none and changes nothing.
C20_SendOnlyEstablished ==
    last.op = "send_data" =>
        /\ is_some(last.out) => last.pre.state = "Established"
        /\ last.pre.state # "Established" =>
              (last.out = None /\ Now = last.pre)

\* C20 as amended: send_data does not consult the state.  In each of the
\* four states, with the window below capacity, it returns a data segment,
\* advances seq and grows the window by it, and leaves the state as it was;
\* what it returns is the same for every value of the state.
C20_SendIgnoresState ==
    /\ (last.op = "send_data"
          /\ Len(last.pre.window) < last.pre.window_size) =>
          /\ is_some(last.out)
          /\ Now.state = last.pre.state
          /\ Now.window = Append(last.pre.window, unwrap(last.out))
          /\ Now.seq = wrapping_add(last.pre.seq, u32(Len(last.msg)))
    /\ \A st \in TcpState, to \in Ports, msg \in Msgs :
          send_data([client_a EXCEPT !.state = st], to, msg).out
            = send_data(client_a, to, msg).out

\* send_data has returned a segment on a closed endpoint.
C20_Witness ==
    /\ last.op = "send_data"
    /\ last.pre.state = "Closed"
    /\ last.msg # << >>
    /\ is_some(last.out)

----------------------------------------------------------------------------
(* Further properties of the driver (DriverSpec) *)

\* C15: on every iteration of the retry loop, whenever B.receive returns a
\* reply to A's SYN, A is in SynSent and the reply has syn and ack_flag
\* set, so A.receive(reply) returns an ACK segment and the unwrap at the
\* call site does not abort the process.
C15_UnwrapValid ==
    /\ pc = "syn_ack" =>
          /\ client_a.state = "SynSent"
          /\ is_syn_ack(inflight)
          /\ is_some(receive(client_a, unwrap(inflight)).out)
    /\ pc = "ack" =>
          /\ ~aborted
          /\ is_some(inflight)
          /\ unwrap(inflight).ack_flag
          /\ ~unwrap(inflight).syn
          /\ unwrap(inflight).payload = << >>

\* The unwrap has yielded the ACK of the initiator.
C15_Witness ==
    /\ pc = "ack"
    /\ last.who = "a"
    /\ last.op = "receive"
    /\ is_syn_ack(last.seg)
    /\ is_some(last.out)

\* C19: in the run of the driver on two new endpoints, once the handshake
\* is done, each data segment's seq equals the receiving endpoint's ack at
\* the moment of delivery, in both directions.
C19_SeqContinuity ==
    (/\ ops = 0
     /\ handshake_done
     /\ last.op = "receive"
     /\ last.pre.state = "Established"
     /\ unwrap(last.seg).payload # << >>) =>
        unwrap(last.seg).seq = last.pre.ack

----------------------------------------------------------------------------
(* checksum as a function of a byte sequence (ChecksumSpec) *)

MaxLen == 7

Bytes == {0, 1, 255}

ByteSeqs == UNION { [1..n -> Bytes] : n \in 0..MaxLen }

ChecksumInit ==
    /\ client_a = TcpClient_new(1000)
    /\ client_b = TcpClient_new(2000)
    /\ overflow_checks \in BOOLEAN
    /\ aborted = FALSE
    /\ last = NoCall
    /\ refused = FALSE
    /\ synacks = [a |-> 0, b |-> 0]
    /\ lost = {}
    /\ data \in ByteSeqs
    /\ sum16 = None
    /\ ops = 0
    /\ pc = "checksum"
    /\ tries = 0
    /\ handshake_done = FALSE
    /\ inflight = None
    /\ calls = NoCalls

\* let sum16 = checksum(&data);
ComputeChecksum ==
    /\ pc = "checksum"
    /\ sum16 = None
    /\ sum16' = Some(checksum(data))
    /\ UNCHANGED << client_a, client_b, overflow_checks, aborted, last,
                    refused, synacks, lost, data, ops, pc, tries,
                    handshake_done, inflight, calls >>

ChecksumNext == ComputeChecksum

ChecksumSpec == ChecksumInit /\ [][ChecksumNext]_vars

\* The k-th 16-bit big-endian word of b; an odd trailing byte is the high
\* byte of a word whose low byte is zero.
WordAt(b, k) == b[2 * k - 1] * 256 + (IF 2 * k <= Len(b) THEN b[2 * k] ELSE 0)

RECURSIVE SumOfWords(_, _)
SumOfWords(b, k) == IF k = 0 THEN 0 ELSE WordAt(b, k) + SumOfWords(b, k - 1)

\* The sum of all the words of b, as an unbounded integer
WordSum(b) == SumOfWords(b, (Len(b) + 1) \div 2)

\* The 16-bit value left when every carry above bit 15 of s has been
\* added back: zero for zero, otherwise the residue of s in 1..65535.
EndAroundCarry(s) == IF s = 0 THEN 0 ELSE ((s - 1) % (U16 - 1)) + 1

\* The Internet checksum of b: the complement of the folded sum
ReferenceChecksum(b) == (U16 - 1) - EndAroundCarry(WordSum(b))

\* C12: checksum(bytes) is the reference Internet checksum of the byte
\* sequence: the sum of its 16-bit big-endian words, an odd trailing byte
\* being the high byte of a last word (so checksum(b) = checksum(b ++ [0])
\* for b of odd length), with the carries folded until none remains,
\* complemented; the result is in 0..65535.
C12_ChecksumReference ==
    is_some(sum16) =>
        /\ unwrap(sum16) = ReferenceChecksum(data)
        /\ unwrap(sum16) \in 0..(U16 - 1)
        /\ Len(data) % 2 = 1 => unwrap(sum16) = checksum(Append(data, 0))

\* The checksum of a sequence of odd length whose word sum has to be
\* folded twice.
C12_Witness ==
    /\ is_some(sum16)
    /\ Len(data) % 2 = 1
    /\ (WordSum(data) % U16) + (WordSum(data) \div U16) >= U16

----------------------------------------------------------------------------
(* Two endpoints whose segments travel between them (NetSpec).  The driver
   hands each segment to the peer at once; here a segment a call returns
   stays in flight until it is delivered, in the order of sending, or is
   lost, which is the timeout the retry loop of the driver provides for.
   Data is sent, as in the driver, by an endpoint that is Established, and
   ack_data is called with the peer's ack. *)

\* Bound on the number of steps of one run
MaxNetOps == 9

Peer(who) == IF who = "a" THEN "b" ELSE "a"

NetInit ==
    /\ client_a = TcpClient_new(1000)
    /\ client_b = TcpClient_new(2000)
    /\ overflow_checks \in BOOLEAN
    /\ aborted = FALSE
    /\ last = NoCall
    /\ refused = FALSE
    /\ synacks = [a |-> 0, b |-> 0]
    /\ lost = {}
    /\ data = << >>
    /\ sum16 = None
    /\ ops = 0
    /\ pc = "net"
    /\ tries = 0
    /\ handshake_done = FALSE
    /\ inflight = << >>
    /\ calls = NoCalls

NetStep ==
    /\ pc = "net"
    /\ ~aborted
    /\ ops < MaxNetOps
    /\ ops' = ops + 1
    /\ UNCHANGED << pc, tries, handshake_done >>

\* The segments in flight to the endpoint who, oldest first
InFlightTo(who) ==
    SelectSeq(inflight, LAMBDA seg : seg.dst_port = Client(who).port)

\* The segments in flight without the oldest one to the endpoint who
RECURSIVE WithoutFirstTo(_, _)
WithoutFirstTo(segs, port) ==
    IF segs = << >> THEN << >>
    ELSE IF Head(segs).dst_port = port THEN Tail(segs)
    ELSE << Head(segs) >> \o WithoutFirstTo(Tail(segs), port)

\* let syn = client.send_syn(peer.port).with_checksum(src_ip, dst_ip);
NetSendSyn(who) ==
    /\ NetStep
    /\ LET r == send_syn(Client(who), Client(Peer(who)).port)
           syn == IF who = "a"
                  THEN with_checksum(unwrap(r.out), src_ip, dst_ip)
                  ELSE with_checksum(unwrap(r.out), dst_ip, src_ip)
       IN /\ Effect(who, CallRecord(who, "send_syn", None,
                                    Client(Peer(who)).port, << >>, u32(0), r),
                    r)
          /\ inflight' = Append(inflight, syn)
    /\ Count("send_syn")

\* client.receive(&segment): the reply, if any, is sent to the peer
NetDeliver(who) ==
    /\ NetStep
    /\ InFlightTo(who) # << >>
    /\ LET seg == Head(InFlightTo(who))
           r == receive(Client(who), seg)
       IN /\ DoReceive(who, seg)
          /\ inflight' = WithoutFirstTo(inflight, Client(who).port) \o r.out
    /\ Count("receive")

\* Timeout or no response: the oldest segment to the endpoint who is lost
NetDrop(who) ==
    /\ NetStep
    /\ InFlightTo(who) # << >>
    /\ lost' = lost \cup {Head(InFlightTo(who))}
    /\ inflight' = WithoutFirstTo(inflight, Client(who).port)
    /\ UNCHANGED << client_a, client_b, overflow_checks, aborted, last,
                    refused, synacks, data, sum16, calls >>

\* if let Some(msg) = client.send_data(peer.port, ..) after the handshake
NetSendData(who) ==
    /\ NetStep
    /\ Client(who).state = "Established"
    /\ \E msg \in Msgs :
          LET r == send_data(Client(who), Client(Peer(who)).port, msg)
          IN /\ DoSendData(who, Client(Peer(who)).port, msg)
             /\ inflight' = inflight \o r.out
    /\ Count("send_data")

\* client.ack_data(peer.ack);
NetAckData(who) ==
    /\ NetStep
    /\ Client(who).state = "Established"
    /\ DoAckData(who, Client(Peer(who)).ack)
    /\ Count("ack_data")
    /\ UNCHANGED inflight

NetNext ==
    \/ \E who \in {"a", "b"} : NetSendSyn(who)
    \/ \E who \in {"a", "b"} : NetDeliver(who)
    \/ \E who \in {"a", "b"} : NetDrop(who)
    \/ \E who \in {"a", "b"} : NetSendData(who)
    \/ \E who \in {"a", "b"} : NetAckData(who)

NetSpec == NetInit /\ [][NetNext]_vars

\* The data segments of the endpoint who that are still in flight, in the
\* order of sending
DataInFlightFrom(who) ==
    SelectSeq(inflight, LAMBDA seg : /\ seg.src_port = Client(who).port
                                     /\ ~seg.syn
                                     /\ seg.payload # << >>)

\* C11: after a handshake with one SYN and no loss, when an endpoint that
\* has sent data segments with non-empty payloads, none refused, of which
\* the peer has received the first ones in order, calls ack_data(peer.ack)
\* for the first time, its window holds exactly the segments that have not
\* been delivered, in the order of sending.
C11_WindowIsUnacknowledged ==
    (/\ last.op = "ack_data"
     /\ last.n = Client(Peer(last.who)).ack
     /\ calls.ack_data = 1
     /\ calls.send_syn = 1
     /\ lost = {}
     /\ ~refused
     /\ last.pre.state = "Established"
     /\ Client(Peer(last.who)).state = "Established"
     /\ \A i \in DOMAIN last.pre.window :
           last.pre.window[i].payload # << >>) =>
        Now.window = DataInFlightFrom(last.who)

\* What holds in every state of an endpoint that answers one SYN at most
C16_State ==
    /\ \A who \in {"a", "b"} : synacks[who] <= 1
    /\ (last.op = "receive" /\ is_some(last.out)) =>
          \/ last.pre.state = "Closed" /\ is_syn_ack(last.out)
          \/ /\ last.pre.state = "SynSent"
             /\ unwrap(last.out).ack_flag
             /\ ~unwrap(last.out).syn
    /\ (/\ last.op = "receive"
        /\ last.pre.state = "SynReceived"
        /\ unwrap(last.seg).syn
        /\ ~unwrap(last.seg).ack_flag) =>
          (last.out = None /\ Now = last.pre)
    /\ \A who \in {"a", "b"} :
          (\E seg \in lost : /\ seg.syn
                             /\ seg.ack_flag
                             /\ seg.dst_port = Client(who).port) =>
             /\ Client(who).state # "Established"
             /\ Client(Peer(who)).state # "Established"

\* No step returns an endpoint to Closed.
C16_Step ==
    /\ client_a.state # "Closed" => client_a'.state # "Closed"
    /\ client_b.state # "Closed" => client_b'.state # "Closed"

\* C16: an endpoint emits a SYN-ACK at most once: no operation returns an
\* endpoint to Closed, and receive replies only from Closed (with a
\* SYN-ACK) and from SynSent (with an ACK); so a repeated SYN delivered to
\* a responder in SynReceived gets no reply and changes nothing, and once
\* the SYN-ACK is lost no further SYN completes the handshake.
C16_SynAckOnce == []C16_State /\ [][C16_Step]_vars

\* The SYN-ACK was lost, and the responder in SynReceived has received
\* another SYN of the initiator.
C16_Witness ==
    /\ \E seg \in lost : seg.syn /\ seg.ack_flag /\ seg.dst_port = 1000
    /\ calls.send_syn >= 2
    /\ last.op = "receive"
    /\ last.who = "b"
    /\ last.pre.state = "SynReceived"
    /\ unwrap(last.seg).syn
    /\ ~unwrap(last.seg).ack_flag
    /\ synacks["b"] = 1

====
